---- MODULE Spec2Model ----
(***************************************************************************)
(* Model of the Study-Assistant chat client (src/unnamed/part_000): the    *)
(* chat display (addChatMessage, typing indicator, clearChat), the two     *)
(* streaming requests (askQuestion, generateSummary) and the read loop of  *)
(* streamResponse with its decoder, Markdown render and highlight passes.  *)
(*                                                                         *)
(* Text is a sequence of characters.  Three characters stand for Markdown  *)
(* markup: "~" is a code-fence line, "*" is the strong-emphasis marker     *)
(* "**" and "nl" is a blank line.  The stream carries bytes: the ASCII     *)
(* bytes "a" and "~", and the two bytes C3 A9 that encode U+00E9.          *)
(*                                                                         *)
(* Message ids are msg-<Date.now()>, so only equality of clock readings    *)
(* matters: a reading advances the clock by at most one millisecond, and   *)
(* only when some element already carries the current reading as its id.   *)
(* A fetch completion and a 100 ms timeout come at least one millisecond   *)
(* after the message they belong to was created.                           *)
(*                                                                         *)
(* Left out, as they touch none of the state below: image previews, the    *)
(* copy button, scroll positions and their 50 ms timeouts, the saved-items *)
(* list, the file lists, the active class of the department cards and the  *)
(* click listeners of the resource items.                                  *)
(*                                                                         *)
(* The resource panel: simulateResourceLoad timers all wait 300 ms, so     *)
(* they fire in the order they were set, and the continuation of           *)
(* displayBuiltInResources runs in the same task as the timer callback.    *)
(* `await res.text()` of a non-OK response is folded into the fetch        *)
(* failure step: nothing is written between the two awaits.                *)
(***************************************************************************)
EXTENDS Integers, Sequences, FiniteSets, TLC

\* ------------------------------------------------------------------ bounds
\* bytes one response body delivers; calls made; message divs created;
\* documents uploaded
MaxStreamBytes == 4
MaxCalls == 2
MaxElems == 5
MaxDocs == 1

\* --------------------------------------------------------------- constants
Null == 0
WelcomeUid == -1
TypingUid == -2
NoId == -1
TYPING_INDICATOR_ID == -2

\* ------------------------------------------------------- sequence helpers
RECURSIVE Flatten(_)
Flatten(ss) == IF ss = <<>> THEN <<>> ELSE Head(ss) \o Flatten(Tail(ss))

\* index of the first position >= i holding x, or 0
RECURSIVE IndexFrom(_, _, _)
IndexFrom(s, x, i) ==
  IF i > Len(s) THEN 0
  ELSE IF s[i] = x THEN i
  ELSE IndexFrom(s, x, i + 1)

\* ------------------------------------------------------------ TextDecoder
\* The UTF-8 decoder of `new TextDecoder()`: `pending` is the lead byte of a
\* character whose continuation byte has not arrived yet (<<>> when none).
REPLACEMENT == "FFFD"
LEAD == "C3"
CONT == "A9"
Bytes == {"~", LEAD, CONT}

RECURSIVE DecodeBytes(_, _, _)
DecodeBytes(pending, bytes, out) ==
  IF bytes = <<>> THEN [text |-> out, pending |-> pending]
  ELSE LET b == Head(bytes) IN
    IF pending = <<>> THEN
      IF b = LEAD THEN DecodeBytes(<<LEAD>>, Tail(bytes), out)
      ELSE IF b = CONT THEN DecodeBytes(<<>>, Tail(bytes), Append(out, REPLACEMENT))
      ELSE DecodeBytes(<<>>, Tail(bytes), Append(out, b))
    ELSE
      IF b = CONT THEN DecodeBytes(<<>>, Tail(bytes), Append(out, "U+00E9"))
      ELSE DecodeBytes(<<>>, bytes, Append(out, REPLACEMENT))

\* decoder.decode(value): without the stream option an incomplete character
\* at the end of the input is flushed as U+FFFD and the state is reset.
DecodeFlush(pending, bytes) ==
  LET r == DecodeBytes(pending, bytes, <<>>) IN
  [text |-> IF r.pending = <<>> THEN r.text ELSE Append(r.text, REPLACEMENT),
   pending |-> <<>>]

\* decoder.decode(value, { stream: true })
DecodeStream(pending, bytes) == DecodeBytes(pending, bytes, <<>>)

\* ------------------------------------------------------------- md.render
FENCE == "~"
STRONG == "*"
BLANK == "nl"

\* inline content of one paragraph: the first marker pairs with the next one
RECURSIVE RenderInline(_)
RenderInline(p) ==
  LET i == IndexFrom(p, STRONG, 1)
      j == IF i = 0 THEN 0 ELSE IndexFrom(p, STRONG, i + 1)
  IN IF j = 0 \/ j = i + 1 THEN p
     ELSE SubSeq(p, 1, i - 1) \o <<"<strong>">> \o SubSeq(p, i + 1, j - 1)
          \o <<"</strong>">> \o RenderInline(SubSeq(p, j + 1, Len(p)))

\* text without fences: paragraphs separated by blank lines
RECURSIVE RenderParagraphs(_)
RenderParagraphs(t) ==
  LET i == IndexFrom(t, BLANK, 1)
      p == IF i = 0 THEN t ELSE SubSeq(t, 1, i - 1)
      rest == IF i = 0 THEN <<>> ELSE SubSeq(t, i + 1, Len(t))
      html == IF p = <<>> THEN <<>> ELSE <<"<p>">> \o RenderInline(p) \o <<"</p>">>
  IN IF t = <<>> THEN <<>> ELSE html \o RenderParagraphs(rest)

\* md.render(text): a fence opens a code block that runs to the next fence
\* or, when there is none yet, to the end of the text.
RECURSIVE Render(_)
Render(t) ==
  LET i == IndexFrom(t, FENCE, 1)
      j == IF i = 0 THEN 0 ELSE IndexFrom(t, FENCE, i + 1)
      close == IF j = 0 THEN Len(t) + 1 ELSE j
  IN IF i = 0 THEN RenderParagraphs(t)
     ELSE RenderParagraphs(SubSeq(t, 1, i - 1))
          \o <<"<pre><code>">> \o SubSeq(t, i + 1, close - 1) \o <<"</code></pre>">>
          \o Render(SubSeq(t, close + 1, Len(t)))

\* the `pre code` elements of a piece of HTML
NumBlocks(html) == Cardinality({k \in 1..Len(html) : html[k] = "<pre><code>"})

Front(s) == SubSeq(s, 1, Len(s) - 1)
Last(s) == s[Len(s)]
RemoveAt(s, k) == SubSeq(s, 1, k - 1) \o SubSeq(s, k + 1, Len(s))
InsertAt(s, k, x) == SubSeq(s, 1, k - 1) \o <<x>> \o SubSeq(s, k, Len(s))

\* ------------------------------------------------------------------ state
VARIABLES
  now,                \* the value Date.now() last returned (ms)
  hljsLoaded,         \* typeof hljs !== 'undefined'
  elems,              \* every message div created so far, by creation order
  dom,                \* children of chatContainer in tree order (element numbers)
  timers,             \* divs whose 100 ms highlight timeout is pending, oldest first
  chatHistory,        \* the chatHistory array
  questionCount,      \* the questionCount counter
  questionCountSpan,  \* the text of the question counter on display
  uploadedDocuments,  \* number of entries of the uploadedDocuments array
  calls,              \* the askQuestion / generateSummary invocations
  selectedDepartment, \* the selectedDepartment global
  builtInResources,   \* the keys of the builtInResources cache
  resourceCategories, \* resourceCategoriesDiv.innerHTML: the items listed
  loads               \* displayBuiltInResources calls awaiting their timer, oldest timer first

vars == <<now, hljsLoaded, elems, dom, timers, chatHistory, questionCount,
          questionCountSpan, uploadedDocuments, calls, selectedDepartment,
          builtInResources, resourceCategories, loads>>

panel == <<selectedDepartment, builtInResources, resourceCategories, loads>>

Calls == 1..MaxCalls

\* fixed message texts, one character each
WARN_ASK == <<"warn-ask">>
WARN_SUM == <<"warn-sum">>
SUMMARIZING == <<"summarizing">>
UPLOADED == <<"uploaded">>
DEPT_SET == <<"dept-set">>
FILES_CLEARED == <<"files-cleared">>
Questions == {<<>>, <<"q">>}
ErrorMessages == {<<>>, <<"m">>}
AppReadErrors == {<<>>}

\* ------------------------------------------------------------ chat display
World == [dom |-> dom, elems |-> elems, chatHistory |-> chatHistory, timers |-> timers]

ElemId(es, u) ==
  IF u = TypingUid THEN TYPING_INDICATOR_ID
  ELSE IF u = WelcomeUid THEN NoId
  ELSE es[u].id

\* document.getElementById(id): the first element in tree order with that id
RECURSIVE FirstWithId(_, _, _, _)
FirstWithId(d, es, id, k) ==
  IF k > Len(d) THEN Null
  ELSE IF ElemId(es, d[k]) = id THEN d[k]
  ELSE FirstWithId(d, es, id, k + 1)

GetElementById(d, es, id) == FirstWithId(d, es, id, 1)

\* the fresh `pre code` elements of newly assigned innerHTML
FreshBlocks(html) == [k \in 1..NumBlocks(html) |-> 0]

\* block => hljs.highlightElement(block), for every block of the element
HighlightAll(hl) == [k \in 1..Len(hl) |-> hl[k] + 1]

\* element u is a child of the chat container
InChat(u) == IndexFrom(dom, u, 1) # 0

\* mutation: the streaming branch appends without removing the indicator
AddChatMessageKeepsIndicator(w, t, message, sender, isStreaming, isRawHtml) ==
  LET uid == Len(w.elems) + 1
      processedMessage ==
        IF isRawHtml THEN message
        ELSE IF sender = "ai" THEN Render(message)
        ELSE <<"<p>">> \o message \o <<"</p>">>
      div == [id |-> t, sender |-> sender, html |-> processedMessage,
              hl |-> FreshBlocks(processedMessage)]
      typingAt == IndexFrom(w.dom, TypingUid, 1)
      dom1 == IF isStreaming
              THEN Append(w.dom, uid)
              ELSE IF typingAt # 0 THEN InsertAt(w.dom, typingAt, uid)
              ELSE Append(w.dom, uid)
  IN [dom |-> dom1,
      elems |-> Append(w.elems, div),
      timers |-> IF sender = "ai" /\ hljsLoaded /\ ~isRawHtml
                 THEN Append(w.timers, uid) ELSE w.timers,
      chatHistory |-> Append(w.chatHistory,
                             [sender |-> sender, message |-> message, elem |-> uid])]

\* addChatMessage(message, sender, [], isStreaming, isRawHtml) at time t
AddChatMessage(w, t, message, sender, isStreaming, isRawHtml) ==
  LET uid == Len(w.elems) + 1
      processedMessage ==
        IF isRawHtml THEN message
        ELSE IF sender = "ai" THEN Render(message)
        ELSE <<"<p>">> \o message \o <<"</p>">>
      div == [id |-> t, sender |-> sender, html |-> processedMessage,
              hl |-> FreshBlocks(processedMessage)]
      typingAt == IndexFrom(w.dom, TypingUid, 1)
      dom1 == IF isStreaming
              THEN Append(IF typingAt = 0 THEN w.dom ELSE RemoveAt(w.dom, typingAt), uid)
              ELSE IF typingAt # 0 THEN InsertAt(w.dom, typingAt, uid)
              ELSE Append(w.dom, uid)
  IN [dom |-> dom1,
      elems |-> Append(w.elems, div),
      timers |-> IF sender = "ai" /\ hljsLoaded /\ ~isRawHtml
                 THEN Append(w.timers, uid) ELSE w.timers,
      chatHistory |-> Append(w.chatHistory,
                             [sender |-> sender, message |-> message, elem |-> uid])]

\* chatHistoryDiv.lastChild.remove()
RemoveLastChild(w) == [w EXCEPT !.dom = Front(w.dom)]

\* showTypingIndicator()
ShowTypingIndicator(w) == [w EXCEPT !.dom = Append(w.dom, TypingUid)]

\* mutation: `if (typingDiv) typingDiv.remove()`, which never throws
RemoveTypingIndicatorNeverThrows(d) == FALSE

\* removeTypingIndicator() throws a ReferenceError (typing_Div) exactly when
\* an indicator is present; otherwise it does nothing.
RemoveTypingIndicatorThrows(d) == IndexFrom(d, TypingUid, 1) # 0

\* chatHistory.findIndex(msg => msg.sender === 'ai' && msg.message === '')
RECURSIVE FindIndex(_, _)
FindIndex(h, k) ==
  IF k > Len(h) THEN 0
  ELSE IF h[k].sender = "ai" /\ h[k].message = <<>> THEN k
  ELSE FindIndex(h, k + 1)

\* if (aiMessageIndex !== -1) chatHistory[aiMessageIndex].message = text
UpdateHistory(h, text) ==
  LET aiMessageIndex == FindIndex(h, 1)
  IN IF aiMessageIndex # 0 THEN [h EXCEPT ![aiMessageIndex].message = text] ELSE h

\* a time at least one millisecond after t
Later(t) == IF now <= t THEN t + 1 ELSE now

\* the milliseconds that can pass before a Date.now() reading made at time t
Elapsed(es, t) == IF \E k \in 1..Len(es) : es[k].id = t THEN {0, 1} ELSE {0}

\* error.message || fallback
MessageOr(msg, fallback) == IF msg = <<>> THEN <<fallback>> ELSE msg

\* ----------------------------------------------------------- streamResponse
SeqsUpTo(S, n) == UNION {[1..k -> S] : k \in 1..n}

\* the values reader.read() can deliver: non-empty byte arrays
Chunks == SeqsUpTo(Bytes, MaxStreamBytes)
AppChunks == {<<"~", "a">>}

\* mutation: decoder.decode(value) without { stream: true }
DecodeChunkNoStream(pending, value) == DecodeFlush(pending, value)

\* const chunk = decoder.decode(value, { stream: true })
DecodeChunk(pending, value) == DecodeStream(pending, value)

\* mutation: fullMessage = chunk
AccumulateOverwrite(fullMessage, chunk) == chunk

\* fullMessage += chunk
Accumulate(fullMessage, chunk) == fullMessage \o chunk

\* mutation: contentDiv.innerHTML += md.render(chunk)
RenderIntoPatch(el, fullMessage, chunk) ==
  LET html == el.html \o Render(chunk)
  IN [el EXCEPT !.html = html,
                !.hl = IF hljsLoaded THEN HighlightAll(FreshBlocks(html))
                       ELSE FreshBlocks(html)]

\* mutation: contentDiv.innerHTML = md.render(chunk)
RenderIntoChunkOnly(el, fullMessage, chunk) ==
  LET html == Render(chunk)
  IN [el EXCEPT !.html = html,
                !.hl = IF hljsLoaded THEN HighlightAll(FreshBlocks(html))
                       ELSE FreshBlocks(html)]

\* contentDiv.innerHTML = md.render(fullMessage), then the highlight pass over
\* the element's `pre code` blocks when hljs is defined
RenderInto(el, fullMessage, chunk) ==
  LET html == Render(fullMessage)
  IN [el EXCEPT !.html = html,
                !.hl = IF hljsLoaded THEN HighlightAll(FreshBlocks(html))
                       ELSE FreshBlocks(html)]

\* `\n\n**Error during streaming:** ${error.message || 'Connection interrupted.'}`
Annotation(msg) ==
  <<BLANK, STRONG, "Error during streaming:", STRONG>>
    \o MessageOr(msg, "Connection interrupted.")

\* mutation: fullMessage = annotation
StreamCatchOverwrite(fullMessage, msg) == Annotation(msg)

\* the catch block of streamResponse: fullMessage += annotation
StreamCatch(fullMessage, msg) == fullMessage \o Annotation(msg)

\* ------------------------------------------------------------------- calls
\* One record per invocation.  messageId, messageElement, fullMessage and the
\* decoder state `pending` are the locals of the call; placeholder is the div
\* its streaming addChatMessage created; log, bytes, writes and lateRead record
\* what its read loop did: the decoded chunks, the bytes received, the HTML
\* assigned to the target, and whether a chunk was handled while the target
\* was no longer in the chat.
IdleCall ==
  [pc |-> "idle", kind |-> "none", messageId |-> NoId, placeholder |-> Null,
   messageElement |-> Null, fullMessage |-> <<>>, pending |-> <<>>,
   log |-> <<>>, bytes |-> <<>>, writes |-> <<>>, lateRead |-> FALSE,
   readError |-> FALSE, result |-> <<>>, path |-> "none"]

Init ==
  /\ now = 1
  /\ hljsLoaded \in BOOLEAN
  /\ elems = <<[id |-> 0, sender |-> "ai", html |-> Render(DEPT_SET), hl |-> <<>>]>>
  /\ dom = <<WelcomeUid, 1>>
  /\ timers = <<>>
  /\ chatHistory = <<[sender |-> "ai", message |-> DEPT_SET, elem |-> 1]>>
  /\ questionCount = 0
  /\ questionCountSpan = 0
  /\ uploadedDocuments = 0
  /\ calls = [c \in Calls |-> IdleCall]
  /\ selectedDepartment = "general"
  /\ builtInResources = {}
  /\ resourceCategories = <<>>
  /\ loads = <<[dept |-> "general", topic |-> 1, html |-> <<>>]>>

NextCall(c) == calls[c].pc = "idle" /\ \A k \in 1..(c - 1) : calls[k].pc # "idle"

SetWorld(w) ==
  /\ dom' = w.dom
  /\ elems' = w.elems
  /\ timers' = w.timers
  /\ chatHistory' = w.chatHistory

\* askQuestion() up to `await fetch(...)`; d1 and d2 are the milliseconds that
\* pass before the first and before the second Date.now() reading
AskQuestion(c, question, d1, d2) ==
  /\ NextCall(c)
  /\ d1 \in Elapsed(elems, now)
  /\ IF question = <<>> /\ uploadedDocuments = 0
     THEN /\ Len(elems) + 1 <= MaxElems
          /\ d2 = 0
          /\ SetWorld(AddChatMessage(World, now + d1, WARN_ASK, "ai", FALSE, FALSE))
          /\ now' = now + d1
          /\ UNCHANGED <<questionCount, questionCountSpan, calls>>
     ELSE LET t1 == now + d1
              t2 == t1 + d2
              w1 == AddChatMessage(World, t1, question, "user", FALSE, FALSE)
              w2 == ShowTypingIndicator(w1)
              w3 == AddChatMessage(w2, t2, <<>>, "ai", TRUE, FALSE)
          IN /\ Len(elems) + 2 <= MaxElems
             /\ d2 \in Elapsed(w1.elems, t1)
             /\ SetWorld(w3)
             /\ now' = t2
             /\ questionCount' = questionCount + 1
             /\ questionCountSpan' = questionCount + 1
             /\ calls' = [calls EXCEPT ![c] =
                   [IdleCall EXCEPT !.pc = "fetch", !.kind = "ask",
                                    !.messageId = t2, !.placeholder = Len(w3.elems)]]
  /\ UNCHANGED <<panel, hljsLoaded, uploadedDocuments>>

\* generateSummary() up to `await fetch(...)`
GenerateSummary(c, d1, d2) ==
  /\ NextCall(c)
  /\ d1 \in Elapsed(elems, now)
  /\ IF uploadedDocuments = 0
     THEN /\ Len(elems) + 1 <= MaxElems
          /\ d2 = 0
          /\ SetWorld(AddChatMessage(World, now + d1, WARN_SUM, "ai", FALSE, FALSE))
          /\ now' = now + d1
          /\ UNCHANGED calls
     ELSE LET t1 == now + d1
              t2 == t1 + d2
              w1 == AddChatMessage(World, t1, SUMMARIZING, "ai", FALSE, FALSE)
              w2 == ShowTypingIndicator(w1)
              w3 == AddChatMessage(w2, t2, <<>>, "ai", TRUE, FALSE)
          IN /\ Len(elems) + 2 <= MaxElems
             /\ d2 \in Elapsed(w1.elems, t1)
             /\ SetWorld(w3)
             /\ now' = t2
             /\ calls' = [calls EXCEPT ![c] =
                   [IdleCall EXCEPT !.pc = "fetch", !.kind = "sum",
                                    !.messageId = t2, !.placeholder = Len(w3.elems)]]
  /\ UNCHANGED <<panel, hljsLoaded, uploadedDocuments, questionCount, questionCountSpan>>

\* the catch block of askQuestion / generateSummary for a caught error whose
\* message is msg.  removeTypingIndicator() runs first: when it throws, the
\* rest of the block is skipped and the call rejects.
FailText(kind) == IF kind = "ask" THEN "AI failed to respond." ELSE "Failed to summarize."
FailFallback(kind) == IF kind = "ask" THEN "Failed to respond" ELSE "Failed to summarize"

CatchBlock(c, msg) ==
  IF RemoveTypingIndicatorThrows(dom)
  THEN /\ calls' = [calls EXCEPT ![c].pc = "rejected", ![c].path = "catch"]
       /\ UNCHANGED <<elems, chatHistory>>
  ELSE LET errorElement == GetElementById(dom, elems, calls[c].messageId)
           text == <<FailText(calls[c].kind)>> \o MessageOr(msg, "Please try again or check server.")
       IN /\ elems' = IF errorElement # Null
                      THEN [elems EXCEPT ![errorElement].html = text,
                                         ![errorElement].hl = FreshBlocks(text)]
                      ELSE elems
          /\ chatHistory' = UpdateHistory(chatHistory,
                 <<"AI Error:">> \o MessageOr(msg, FailFallback(calls[c].kind)))
          /\ calls' = [calls EXCEPT ![c].pc = "done", ![c].path = "catch"]

\* fetch resolved with res.ok: removeTypingIndicator(), then streamResponse
\* runs up to its first `await reader.read()`
FetchOk(c) ==
  /\ calls[c].pc = "fetch"
  /\ now' = Later(calls[c].messageId)
  /\ IF RemoveTypingIndicatorThrows(dom)
     THEN CatchBlock(c, <<"typing_Div is not defined">>)
     ELSE /\ calls' = [calls EXCEPT ![c].pc = "read",
                          ![c].messageElement = GetElementById(dom, elems, calls[c].messageId),
                          ![c].fullMessage = <<>>,
                          ![c].pending = <<>>]
          /\ UNCHANGED <<elems, chatHistory>>
  /\ UNCHANGED <<panel, hljsLoaded, dom, timers, questionCount, questionCountSpan, uploadedDocuments>>

\* fetch rejected, or the response was not OK and the handler threw
FetchFail(c, msg) ==
  /\ calls[c].pc = "fetch"
  /\ now' = Later(calls[c].messageId)
  /\ CatchBlock(c, msg)
  /\ UNCHANGED <<panel, hljsLoaded, dom, timers, questionCount, questionCountSpan, uploadedDocuments>>

\* mutation: the loop body also runs for a value delivered after the loop has
\* exited
ReadChunkAfterExit(c, value) ==
  /\ calls[c].pc \in {"read", "done"}
  /\ Len(calls[c].bytes) + Len(value) <= MaxStreamBytes
  /\ LET d == DecodeChunk(calls[c].pending, value)
         chunk == d.text
         fullMessage == Accumulate(calls[c].fullMessage, chunk)
         messageElement == calls[c].messageElement
         el == RenderInto(elems[messageElement], fullMessage, chunk)
     IN /\ elems' = IF messageElement # Null
                    THEN [elems EXCEPT ![messageElement] = el]
                    ELSE elems
        /\ calls' = [calls EXCEPT ![c].fullMessage = fullMessage,
                                  ![c].pending = d.pending,
                                  ![c].log = Append(@, chunk),
                                  ![c].bytes = @ \o value,
                                  ![c].lateRead = @ \/ (messageElement # Null
                                                        /\ ~InChat(messageElement)),
                                  ![c].writes = IF messageElement # Null
                                                THEN Append(@, el.html) ELSE @]
  /\ UNCHANGED <<panel, now, hljsLoaded, dom, timers, chatHistory, questionCount,
                 questionCountSpan, uploadedDocuments>>

\* one iteration of the read loop: reader.read() delivered { done: false, value }
ReadChunk(c, value) ==
  /\ calls[c].pc = "read"
  /\ Len(calls[c].bytes) + Len(value) <= MaxStreamBytes
  /\ LET d == DecodeChunk(calls[c].pending, value)
         chunk == d.text
         fullMessage == Accumulate(calls[c].fullMessage, chunk)
         messageElement == calls[c].messageElement
         el == RenderInto(elems[messageElement], fullMessage, chunk)
     IN /\ elems' = IF messageElement # Null
                    THEN [elems EXCEPT ![messageElement] = el]
                    ELSE elems
        /\ calls' = [calls EXCEPT ![c].fullMessage = fullMessage,
                                  ![c].pending = d.pending,
                                  ![c].log = Append(@, chunk),
                                  ![c].bytes = @ \o value,
                                  ![c].lateRead = @ \/ (messageElement # Null
                                                        /\ ~InChat(messageElement)),
                                  ![c].writes = IF messageElement # Null
                                                THEN Append(@, el.html) ELSE @]
  /\ UNCHANGED <<panel, now, hljsLoaded, dom, timers, chatHistory, questionCount,
                 questionCountSpan, uploadedDocuments>>

\* the caller's continuation after `await streamResponse(res, messageId)`
Resolve(c, fullMessage, failed) ==
  /\ chatHistory' = UpdateHistory(chatHistory, fullMessage)
  /\ calls' = [calls EXCEPT ![c].pc = "done", ![c].path = "success",
                            ![c].fullMessage = fullMessage,
                            ![c].result = fullMessage,
                            ![c].readError = failed]

\* reader.read() delivered { done: true }: the loop breaks, streamResponse
\* returns fullMessage and the caller records it in chatHistory
ReadDone(c) ==
  /\ calls[c].pc = "read"
  /\ Resolve(c, calls[c].fullMessage, FALSE)
  /\ UNCHANGED <<panel, now, hljsLoaded, elems, dom, timers, questionCount,
                 questionCountSpan, uploadedDocuments>>

\* reader.read() rejected with an error whose message is msg
ReadError(c, msg) ==
  /\ calls[c].pc = "read"
  /\ Resolve(c, StreamCatch(calls[c].fullMessage, msg), TRUE)
  /\ UNCHANGED <<panel, now, hljsLoaded, elems, dom, timers, questionCount,
                 questionCountSpan, uploadedDocuments>>

\* the setTimeout(..., 100) callback that addChatMessage scheduled for div u;
\* all these timeouts have the same delay, so they run in the order scheduled
HighlightTimer ==
  /\ timers # <<>>
  /\ LET u == Head(timers)
     IN /\ elems' = [elems EXCEPT ![u].hl = HighlightAll(@)]
        /\ now' = Later(elems[u].id)
  /\ timers' = Tail(timers)
  /\ UNCHANGED <<panel, hljsLoaded, dom, chatHistory, questionCount, questionCountSpan,
                 uploadedDocuments, calls>>

\* mutation: clearChat() also resets the text of the streams in progress
ClearChatResetsStreams ==
  /\ chatHistory' = <<>>
  /\ questionCount' = 0
  /\ questionCountSpan' = 0
  /\ dom' = <<WelcomeUid>>
  /\ calls' = [c \in Calls |-> [calls[c] EXCEPT !.fullMessage = <<>>]]
  /\ UNCHANGED <<panel, now, hljsLoaded, elems, timers, uploadedDocuments>>

\* mutation: clearChat() also cancels the streams in progress
ClearChatCancels ==
  /\ chatHistory' = <<>>
  /\ questionCount' = 0
  /\ questionCountSpan' = 0
  /\ dom' = <<WelcomeUid>>
  /\ calls' = [c \in Calls |->
                 IF calls[c].pc = "read" THEN [calls[c] EXCEPT !.pc = "cancelled"]
                 ELSE calls[c]]
  /\ UNCHANGED <<panel, now, hljsLoaded, elems, timers, uploadedDocuments>>

\* clearChat()
ClearChat ==
  /\ chatHistory' = <<>>
  /\ questionCount' = 0
  /\ questionCountSpan' = 0
  /\ dom' = <<WelcomeUid>>
  /\ UNCHANGED <<panel, now, hljsLoaded, elems, timers, uploadedDocuments, calls>>

\* clearAllFiles()
ClearAllFiles(d) ==
  /\ d \in Elapsed(elems, now)
  /\ Len(elems) + 1 <= MaxElems
  /\ uploadedDocuments' = 0
  /\ SetWorld(AddChatMessage(World, now + d, FILES_CLEARED, "ai", FALSE, FALSE))
  /\ now' = now + d
  /\ UNCHANGED <<panel, hljsLoaded, questionCount, questionCountSpan, calls>>

\* ------------------------------------------------------- resource panel
\* departmentResources: two of its eight departments; each has one category
\* of four topics, so a key of builtInResources is <<department, topic number>>
Departments == {"general", "engineering"}
Topics(dept) == IF dept \in Departments THEN 1..4 ELSE {}
NO_RESOURCES == <<"No resources available.">>

Panel == [cache |-> builtInResources, html |-> resourceCategories, loads |-> loads]

SetPanel(p) ==
  /\ builtInResources' = p.cache
  /\ resourceCategories' = p.html
  /\ loads' = p.loads

\* the list displayBuiltInResources(dept) builds when it runs to its end
ResourceList(dept) == [k \in Topics(dept) |-> <<dept, k>>]

\* simulateResourceLoad(dept, cat, topic): a 300 ms timer, set behind the
\* pending ones; the caller waits for it with the html built so far
SimulateResourceLoad(p, dept, topic, html) ==
  [p EXCEPT !.loads = Append(@, [dept |-> dept, topic |-> topic, html |-> html])]

\* the loop of displayBuiltInResources from topic k on: up to its next await,
\* or to its end, where it replaces the content of resourceCategoriesDiv
RECURSIVE LoadTopics(_, _, _, _)
LoadTopics(p, dept, k, html) ==
  IF k \notin Topics(dept) THEN [p EXCEPT !.html = html]
  ELSE IF <<dept, k>> \notin p.cache THEN SimulateResourceLoad(p, dept, k, html)
  ELSE LoadTopics(p, dept, k + 1, Append(html, <<dept, k>>))

\* displayBuiltInResources(dept), up to its first await
DisplayBuiltInResources(p, dept) ==
  IF Topics(dept) = {} THEN [p EXCEPT !.html = NO_RESOURCES]
  ELSE LoadTopics(p, dept, 1, <<>>)

\* selectDepartment(dept)
SelectDepartment(d, dept) ==
  /\ d \in Elapsed(elems, now)
  /\ Len(elems) + 1 <= MaxElems
  /\ selectedDepartment' = dept
  /\ SetWorld(AddChatMessage(World, now + d, DEPT_SET, "ai", FALSE, FALSE))
  /\ SetPanel(DisplayBuiltInResources(Panel, dept))
  /\ now' = now + d
  /\ UNCHANGED <<hljsLoaded, questionCount, questionCountSpan, uploadedDocuments, calls>>

\* the timer of simulateResourceLoad fires: the waiting displayBuiltInResources
\* stores the resource under its key, lists the topic and goes on
ResourceLoaded ==
  /\ loads # <<>>
  /\ LET l == Head(loads)
         p == [Panel EXCEPT !.cache = @ \cup {<<l.dept, l.topic>>}, !.loads = Tail(loads)]
     IN SetPanel(LoadTopics(p, l.dept, l.topic + 1, Append(l.html, <<l.dept, l.topic>>)))
  /\ UNCHANGED <<now, hljsLoaded, elems, dom, timers, chatHistory, questionCount,
                 questionCountSpan, uploadedDocuments, calls, selectedDepartment>>

\* processFiles(): the continuation after a successful upload of one document
\* whose extracted text is too short for generateQuestionsForDocument
ProcessFilesUploaded(d) ==
  /\ d \in Elapsed(elems, now)
  /\ uploadedDocuments < MaxDocs
  /\ Len(elems) + 1 <= MaxElems
  /\ uploadedDocuments' = uploadedDocuments + 1
  /\ SetWorld(AddChatMessage(World, now + d, UPLOADED, "ai", FALSE, FALSE))
  /\ now' = now + d
  /\ UNCHANGED <<panel, hljsLoaded, questionCount, questionCountSpan, calls>>


\* the questions tried: the empty one where it takes the early return
QuestionInputs == IF uploadedDocuments = 0 THEN Questions ELSE {<<"q">>}

Next ==
  \/ \E c \in Calls, q \in QuestionInputs, d1, d2 \in {0, 1} : AskQuestion(c, q, d1, d2)
  \/ \E c \in Calls, d1, d2 \in {0, 1} : GenerateSummary(c, d1, d2)
  \/ \E c \in Calls : FetchOk(c)
  \/ \E c \in Calls, msg \in ErrorMessages : FetchFail(c, msg)
  \/ \E c \in Calls, value \in AppChunks : ReadChunk(c, value)
  \/ \E c \in Calls : ReadDone(c)
  \/ \E c \in Calls, msg \in AppReadErrors : ReadError(c, msg)
  \/ HighlightTimer
  \/ ClearChat
  \/ \E d \in {0, 1} : ProcessFilesUploaded(d)

Spec == Init /\ [][Next]_vars

\* one askQuestion call streaming arbitrary byte chunks
StreamNext ==
  \/ \E d1, d2 \in {0, 1} : AskQuestion(1, <<"q">>, d1, d2)
  \/ FetchOk(1)
  \/ \E value \in Chunks : ReadChunk(1, value)
  \/ ReadDone(1)
  \/ \E msg \in ErrorMessages : ReadError(1, msg)
  \/ ClearChat

StreamSpec == Init /\ [][StreamNext]_vars

\* a stream and the operations of the page that can run between its chunks
InterruptNext ==
  \/ \E c \in Calls, d1, d2 \in {0, 1} : AskQuestion(c, <<"q">>, d1, d2)
  \/ \E c \in Calls, d1, d2 \in {0, 1} : GenerateSummary(c, d1, d2)
  \/ \E c \in Calls : FetchOk(c)
  \/ \E c \in Calls, msg \in ErrorMessages : FetchFail(c, msg)
  \/ \E c \in Calls, value \in AppChunks : ReadChunk(c, value)
  \/ \E c \in Calls : ReadDone(c)
  \/ \E c \in Calls, msg \in AppReadErrors : ReadError(c, msg)
  \/ ClearChat
  \/ \E d \in {0, 1} : ClearAllFiles(d)
  \/ \E d \in {0, 1} : SelectDepartment(d, "general")
  \/ \E d \in {0, 1} : ProcessFilesUploaded(d)

InterruptSpec == Init /\ [][InterruptNext]_vars

\* the department cards and the resource loads they start
ResourceNext ==
  \/ \E d \in {0, 1}, dept \in Departments : SelectDepartment(d, dept)
  \/ ResourceLoaded

ResourceSpec == Init /\ [][ResourceNext]_vars

\* the settling of a pending reader.read(): a chunk, the done signal or a
\* rejection
ReadSettles(c) ==
  \/ \E value \in AppChunks : ReadChunk(c, value)
  \/ ReadDone(c)
  \/ \E msg \in ErrorMessages : ReadError(c, msg)

\* one askQuestion call and clearChat
SessionNext ==
  \/ \E d1, d2 \in {0, 1} : AskQuestion(1, <<"q">>, d1, d2)
  \/ FetchOk(1)
  \/ \E msg \in ErrorMessages : FetchFail(1, msg)
  \/ ReadSettles(1)
  \/ ClearChat

\* the call under the assumption that every pending read settles; the body
\* delivers at most MaxStreamBytes bytes, so finitely many chunks
LiveSessionSpec == Init /\ [][SessionNext]_vars /\ WF_vars(ReadSettles(1))

\* ------------------------------------------- generateQuestionsForDocument
GENERATING == <<"generating">>
QUESTIONS_HTML == <<"<strong>", "questions", "</strong>">>
NO_QUESTIONS == <<"no-questions">>
GENERATE_FAILED == <<"generate-failed">>
UPLOAD_FAILED == <<"upload-failed">>
QuestionOutcomes == {"questions", "none", "failed"}

\* processFiles(): the continuation after a successful upload of one PDF or
\* DOCX document with more than 100 characters of text, which goes on into
\* generateQuestionsForDocument() up to its `await fetch(...)`
ProcessFilesGenerate(c, d1, d2) ==
  /\ NextCall(c)
  /\ uploadedDocuments < MaxDocs
  /\ Len(elems) + 2 <= MaxElems
  /\ d1 \in Elapsed(elems, now)
  /\ LET t1 == now + d1
         t2 == t1 + d2
         w1 == AddChatMessage(World, t1, UPLOADED, "ai", FALSE, FALSE)
         w2 == AddChatMessage(w1, t2, GENERATING, "ai", FALSE, FALSE)
     IN /\ d2 \in Elapsed(w1.elems, t1)
        /\ SetWorld(w2)
        /\ now' = t2
        /\ calls' = [calls EXCEPT ![c] =
              [IdleCall EXCEPT !.pc = "questions", !.kind = "questions",
                               !.messageId = t2, !.placeholder = Len(w2.elems)]]
  /\ uploadedDocuments' = uploadedDocuments + 1
  /\ UNCHANGED <<panel, hljsLoaded, questionCount, questionCountSpan>>

\* the continuation of generateQuestionsForDocument(): the server sent
\* questions, sent none, or the request failed.  Either way the last child of
\* the chat is removed and one message is added (the buttons as raw HTML).
\* With an empty chat lastChild is null: the removal throws in the try block
\* and again in the catch block, and processFiles reports a failed upload.
QuestionsSettle(c, outcome) ==
  /\ calls[c].pc = "questions"
  /\ Len(elems) + 1 <= MaxElems
  /\ LET t == Later(calls[c].messageId)
     IN /\ now' = t
        /\ IF dom = <<>>
           THEN /\ SetWorld(AddChatMessage(World, t, UPLOAD_FAILED, "ai", FALSE, FALSE))
                /\ calls' = [calls EXCEPT ![c].pc = "done", ![c].path = "rejected"]
           ELSE /\ SetWorld(
                     IF outcome = "questions"
                     THEN AddChatMessage(RemoveLastChild(World), t, QUESTIONS_HTML,
                                         "ai", FALSE, TRUE)
                     ELSE AddChatMessage(RemoveLastChild(World), t,
                                         IF outcome = "none" THEN NO_QUESTIONS
                                         ELSE GENERATE_FAILED,
                                         "ai", FALSE, FALSE))
                /\ calls' = [calls EXCEPT ![c].pc = "done",
                                ![c].path = IF outcome = "failed" THEN "catch"
                                            ELSE "success"]
  /\ UNCHANGED <<panel, hljsLoaded, questionCount, questionCountSpan, uploadedDocuments>>

\* every handler of the page that adds children to the chat or removes them,
\* with the requests they start settling in any order; the read loops of the
\* streams, which only write inside a message, stay pending
ChatNext ==
  \/ \E c \in Calls, q \in QuestionInputs, d1, d2 \in {0, 1} : AskQuestion(c, q, d1, d2)
  \/ \E c \in Calls, d1, d2 \in {0, 1} : GenerateSummary(c, d1, d2)
  \/ \E c \in Calls : FetchOk(c)
  \/ \E c \in Calls, msg \in ErrorMessages : FetchFail(c, msg)
  \/ \E d \in {0, 1} : ProcessFilesUploaded(d)
  \/ \E c \in Calls, d1, d2 \in {0, 1} : ProcessFilesGenerate(c, d1, d2)
  \/ \E c \in Calls, outcome \in QuestionOutcomes : QuestionsSettle(c, outcome)
  \/ \E d \in {0, 1} : ClearAllFiles(d)
  \/ \E d \in {0, 1} : SelectDepartment(d, "general")
  \/ ClearChat

ChatSpec == Init /\ [][ChatNext]_vars

\* ------------------------------------------- the chat display on its own
\* showTypingIndicator(), removeTypingIndicator() and addChatMessage() called
\* in any order, as any script of the page may call them.

\* showTypingIndicator()
ShowTypingIndicatorCall ==
  /\ Len(dom) < MaxElems
  /\ SetWorld(ShowTypingIndicator(World))
  /\ UNCHANGED <<panel, now, hljsLoaded, questionCount, questionCountSpan,
                 uploadedDocuments, calls>>

\* removeTypingIndicator(); the invocation and its outcome are recorded in
\* slot c.  The throw comes before the removal, and without an indicator
\* there is nothing to remove: the chat is left as it was either way.
RemoveTypingIndicator(c) ==
  /\ NextCall(c)
  /\ calls' = [calls EXCEPT ![c] =
       [IdleCall EXCEPT !.kind = "removeTypingIndicator",
                        !.pc = IF RemoveTypingIndicatorThrows(dom)
                               THEN "threw" ELSE "done"]]
  /\ UNCHANGED <<panel, now, hljsLoaded, elems, dom, timers, chatHistory, questionCount,
                 questionCountSpan, uploadedDocuments>>

\* addChatMessage(message, sender, [], isStreaming)
AddChatMessageCall(sender, isStreaming, d) ==
  /\ d \in Elapsed(elems, now)
  /\ Len(elems) + 1 <= MaxElems
  /\ SetWorld(AddChatMessage(World, now + d, <<"q">>, sender, isStreaming, FALSE))
  /\ now' = now + d
  /\ UNCHANGED <<panel, hljsLoaded, questionCount, questionCountSpan, uploadedDocuments, calls>>

DisplayNext ==
  \/ ShowTypingIndicatorCall
  \/ \E c \in Calls : RemoveTypingIndicator(c)
  \/ \E sender \in {"ai", "user"}, isStreaming \in BOOLEAN, d \in {0, 1} :
       AddChatMessageCall(sender, isStreaming, d)

DisplaySpec == Init /\ [][DisplayNext]_vars

\* ------------------------------------------------------------ src/script.js
\* The non-streaming version of the page: messages carry no id, the answer
\* replaces a "Thinking..." message, and clearChat announces itself.
THINKING == <<"thinking">>
ANSWER == <<"answer">>
ASK_FAILED == <<"ask-failed">>
WARN_QUESTION == <<"warn-question">>
CHAT_CLEARED == <<"chat-cleared">>

\* addChatMessage(message, sender) of script.js
ScriptAddChatMessage(w, message, sender) ==
  LET uid == Len(w.elems) + 1
      div == [id |-> NoId, sender |-> sender,
              html |-> <<"<p>">> \o message \o <<"</p>">>, hl |-> <<>>]
  IN [dom |-> Append(w.dom, uid),
      elems |-> Append(w.elems, div),
      timers |-> w.timers,
      chatHistory |-> Append(w.chatHistory,
                             [sender |-> sender, message |-> message, elem |-> uid])]

\* askQuestion() of script.js up to `await fetch(...)`
ScriptAskQuestion(c, question) ==
  /\ NextCall(c)
  /\ IF question = <<>>
     THEN /\ Len(elems) + 1 <= MaxElems
          /\ SetWorld(ScriptAddChatMessage(World, WARN_QUESTION, "ai"))
          /\ UNCHANGED <<questionCount, questionCountSpan, calls>>
     ELSE LET w1 == ScriptAddChatMessage(World, question, "user")
              w2 == ScriptAddChatMessage(w1, THINKING, "ai")
          IN /\ Len(elems) + 2 <= MaxElems
             /\ SetWorld(w2)
             /\ questionCount' = questionCount + 1
             /\ questionCountSpan' = questionCount + 1
             /\ calls' = [calls EXCEPT ![c] =
                   [IdleCall EXCEPT !.pc = "fetch", !.kind = "ask",
                                    !.placeholder = Len(w2.elems)]]
  /\ UNCHANGED <<panel, now, hljsLoaded, uploadedDocuments>>

\* the continuation of askQuestion() of script.js: the answer arrived (ok) or
\* the request failed
ScriptAskSettles(c, ok) ==
  /\ calls[c].pc = "fetch"
  /\ Len(elems) + 1 <= MaxElems
  /\ IF dom = <<>>
     THEN /\ calls' = [calls EXCEPT ![c].pc = "rejected", ![c].path = "catch"]
          /\ UNCHANGED <<dom, elems, timers, chatHistory>>
     ELSE /\ SetWorld(ScriptAddChatMessage(RemoveLastChild(World),
                         IF ok THEN ANSWER ELSE ASK_FAILED, "ai"))
          /\ calls' = [calls EXCEPT ![c].pc = "done",
                          ![c].path = IF ok THEN "success" ELSE "catch"]
  /\ UNCHANGED <<panel, now, hljsLoaded, questionCount, questionCountSpan, uploadedDocuments>>

\* clearChat() of script.js; the invocation is recorded in slot c
ScriptClearChat(c) ==
  /\ NextCall(c)
  /\ Len(elems) + 1 <= MaxElems
  /\ questionCount' = 0
  /\ questionCountSpan' = 0
  /\ SetWorld(ScriptAddChatMessage(
         [World EXCEPT !.chatHistory = <<>>, !.dom = <<WelcomeUid>>],
         CHAT_CLEARED, "ai"))
  /\ calls' = [calls EXCEPT ![c] =
                 [IdleCall EXCEPT !.pc = "done", !.kind = "clearChat"]]
  /\ UNCHANGED <<panel, now, hljsLoaded, uploadedDocuments>>

\* clearAllFiles() of script.js
ScriptClearAllFiles ==
  /\ Len(elems) + 1 <= MaxElems
  /\ uploadedDocuments' = 0
  /\ SetWorld(ScriptAddChatMessage(World, FILES_CLEARED, "ai"))
  /\ UNCHANGED <<panel, now, hljsLoaded, questionCount, questionCountSpan, calls>>

ScriptNext ==
  \/ \E c \in Calls, q \in Questions : ScriptAskQuestion(c, q)
  \/ \E c \in Calls, ok \in BOOLEAN : ScriptAskSettles(c, ok)
  \/ \E c \in Calls : ScriptClearChat(c)
  \/ ScriptClearAllFiles

ScriptSpec == Init /\ [][ScriptNext]_vars

\* ================================================================== claims

Resolved(c) == calls[c].pc = "done" /\ calls[c].path = "success"
Reading(c) == calls[c].pc = "read"
TargetOf(c) == calls[c].messageElement

\* C1: when the stream ends without a read error, streamResponse resolves
\* with the decoded chunks concatenated in arrival order, with or without a
\* target element.
C1_ResolvesWithConcatenation ==
  \A c \in Calls :
    Resolved(c) /\ ~calls[c].readError => calls[c].result = Flatten(calls[c].log)

C1_Witness ==
  \E c \in Calls :
    /\ Resolved(c) /\ ~calls[c].readError
    /\ TargetOf(c) = Null
    /\ Len(calls[c].log) = 2
    /\ calls[c].log[1] # <<>> /\ calls[c].log[2] # <<>>
    /\ calls[c].log[1] # calls[c].log[2]

\* C2: when reader.read() fails after N chunks, streamResponse resolves (the
\* caller stays on its success path) with the text of those N chunks followed
\* by a non-empty error annotation.
C2_ReadErrorResolvesAnnotated ==
  \A c \in Calls :
    calls[c].pc = "done" /\ calls[c].readError =>
      /\ calls[c].path = "success"
      /\ \E msg \in ErrorMessages :
           /\ Annotation(msg) # <<>>
           /\ calls[c].result = Flatten(calls[c].log) \o Annotation(msg)

C2_Witness ==
  \E c \in Calls :
    /\ calls[c].pc = "done" /\ calls[c].readError
    /\ Len(calls[c].log) = 2
    /\ Flatten(calls[c].log) # <<>>

\* C3 (as stated): once streamResponse has resolved after a read failure,
\* the target shows the rendering of the returned text, annotation included.
C3_AnnotationRendered ==
  \A c \in Calls :
    Resolved(c) /\ calls[c].readError /\ Len(calls[c].log) >= 1
      /\ TargetOf(c) # Null /\ TargetOf(c) = calls[c].placeholder
    => elems[TargetOf(c)].html = Render(calls[c].result)

\* C4 (as stated): a read failure leaves the caller on its success path, and
\* the chat-history entry of the call's placeholder, while it is in
\* chatHistory, receives the text-so-far plus annotation.
C4_ReadErrorEntrySet ==
  [][\A c \in Calls :
       Reading(c) /\ calls'[c].pc = "done" /\ calls'[c].readError =>
         /\ calls'[c].path = "success"
         /\ \A k \in 1..Len(chatHistory) :
              chatHistory[k].elem = calls[c].placeholder =>
                chatHistory'[k].message = calls'[c].result]_vars

\* C5 (as stated): wherever the read loop awaits the next chunk after having
\* processed one, the target shows the rendering of the whole accumulated text.
C5_TargetShowsAccumulated ==
  \A c \in Calls :
    Reading(c) /\ Len(calls[c].log) >= 1 /\ TargetOf(c) # Null
    => elems[TargetOf(c)].html = Render(calls[c].fullMessage)

\* C6: chunking independence.  The returned text and the final content of the
\* target of an error-free run are those of the run that receives the same
\* bytes as a single chunk, so two runs whose chunks concatenate to the same
\* bytes end alike.
C6_ChunkingIndependent ==
  \A c \in Calls :
    Resolved(c) /\ ~calls[c].readError =>
      LET whole == DecodeStream(<<>>, calls[c].bytes).text
      IN /\ calls[c].result = whole
         /\ TargetOf(c) # Null /\ calls[c].log # <<>>
              => elems[TargetOf(c)].html = Render(whole)

C6_Witness ==
  \E c \in Calls :
    /\ Resolved(c) /\ ~calls[c].readError
    /\ TargetOf(c) # Null
    /\ Len(calls[c].log) = 2
    /\ Len(calls[c].bytes) = 3
    /\ NumBlocks(elems[TargetOf(c)].html) = 1

\* C7: when a chunk ends with the lead byte of a two-byte character and the
\* next chunk starts with its continuation byte, the accumulated text becomes
\* the decoding of the bytes before the character, then that one character,
\* then the decoding of the rest of the chunk: nothing is appended for the
\* lead byte alone and no replacement character appears at the boundary.
C7_SplitCharacterDecoded ==
  [][\A c \in Calls :
       LET old == calls[c].bytes
           new == calls'[c].bytes
       IN Reading(c) /\ Len(new) > Len(old) /\ old # <<>>
            /\ Last(old) = LEAD /\ new[Len(old) + 1] = CONT
          => calls'[c].fullMessage =
               DecodeFlush(<<>>, Front(old)).text \o <<"U+00E9">>
                 \o DecodeStream(<<>>, SubSeq(new, Len(old) + 2, Len(new))).text]_vars

C7_Witness ==
  \E c \in Calls :
    /\ calls[c].bytes = <<"~", LEAD, CONT>>
    /\ calls[c].log = <<<<"~">>, <<"U+00E9">>>>

\* C8 (as stated), for the placeholder a call streams into: none of its code
\* blocks is highlighted more than once.
C8_HighlightedOnce ==
  \A c \in Calls :
    calls[c].placeholder # Null =>
      \A k \in 1..Len(elems[calls[c].placeholder].hl) :
        elems[calls[c].placeholder].hl[k] <= 1

\* C9 (as stated): a streaming session writes to the placeholder its own call
\* created, and no other session has the same target.
C9_TargetIsOwnPlaceholder ==
  \A c \in Calls :
    Reading(c) /\ TargetOf(c) # Null =>
      /\ TargetOf(c) = calls[c].placeholder
      /\ \A o \in Calls \ {c} : Reading(o) => TargetOf(o) # TargetOf(c)

\* C10: the session writes its target once per chunk, and its k-th write is
\* the rendering of exactly the first k chunks.
C10_RendersInChunkOrder ==
  \A c \in Calls :
    TargetOf(c) # Null =>
      /\ Len(calls[c].writes) = Len(calls[c].log)
      /\ \A k \in 1..Len(calls[c].writes) :
           calls[c].writes[k] = Render(Flatten(SubSeq(calls[c].log, 1, k)))

C10_Witness ==
  \E c \in Calls :
    /\ Len(calls[c].writes) = 2
    /\ calls[c].writes[1] # calls[c].writes[2]
    /\ calls[c].log[2] # <<>>
    /\ NumBlocks(calls[c].writes[2]) = 1

IsPrefix(a, b) == Len(a) <= Len(b) /\ SubSeq(b, 1, Len(a)) = a

\* C11: fullMessage is append-only.  Every step leaves the old value of each
\* call's fullMessage a prefix of the new one (the error path included), and
\* a step that changes it is a step of that call's own read loop: the call
\* was reading, it took a chunk or caught a read error, and the step touched
\* no other call, nor the chat, nor the counters.
C11_AppendOnly ==
  [][\A c \in Calls :
       LET old == calls[c].fullMessage
           new == calls'[c].fullMessage
       IN /\ IsPrefix(old, new)
          /\ new # old =>
               /\ Reading(c)
               /\ \/ Len(calls'[c].log) = Len(calls[c].log) + 1
                  \/ calls'[c].readError
               /\ \A o \in Calls \ {c} : calls'[o] = calls[o]
               /\ dom' = dom
               /\ questionCount' = questionCount]_vars

\* two calls have accumulated text, one of them through the error path
C11_Witness ==
  \E c, o \in Calls :
    /\ c # o
    /\ Reading(c) /\ Len(calls[c].log) = 2
    /\ calls[o].readError /\ Len(calls[o].log) = 1
    /\ Len(calls[o].fullMessage) > Len(Flatten(calls[o].log))
    /\ ~InChat(calls[c].placeholder)

\* C12: every streaming session finishes exactly once.  With every pending
\* read settling and finitely many chunks, a call that is reading eventually
\* resolves; and once it has resolved (after the done signal or a read
\* error) nothing of the session changes any more: its chunks read, its
\* accumulated text, its writes to the target and its result stay as they
\* were when it returned.
C12_FinishesOnce ==
  /\ \A c \in Calls : Reading(c) ~> Resolved(c)
  /\ [][\A c \in Calls :
          calls[c].pc = "done" => calls'[c] = calls[c]]_vars

\* a session that took chunks up to the byte budget and has resolved
C12_Witness ==
  \E c \in Calls :
    /\ Resolved(c)
    /\ Len(calls[c].log) >= 2
    /\ Len(calls[c].bytes) = MaxStreamBytes
    /\ TargetOf(c) # Null

\* C13: there is no cancellation.  While a call is in its read loop, every
\* step of the page either leaves the call exactly as it was, still awaiting
\* its read (clearChat, clearAllFiles, selectDepartment, an upload, another
\* askQuestion or generateSummary and the other calls' steps), or is its own
\* next chunk, appended to its text, or is its own exit through the done
\* signal or a read error.
C13_NoCancellation ==
  [][\A c \in Calls :
       Reading(c) =>
         \/ calls'[c] = calls[c]
         \/ /\ Reading(c)'
            /\ Len(calls'[c].log) = Len(calls[c].log) + 1
            /\ calls'[c].fullMessage = calls[c].fullMessage \o Last(calls'[c].log)
         \/ /\ Resolved(c)'
            /\ IsPrefix(calls[c].fullMessage, calls'[c].result)]_vars

\* a call that handled a chunk after clearChat had removed its target, files
\* having been cleared and a department selected since the call started
C13_Witness ==
  \E c \in Calls :
    /\ Reading(c) /\ calls[c].lateRead /\ Len(calls[c].log) = 2
    /\ \E k, j \in (calls[c].placeholder + 1)..Len(elems) :
         /\ elems[k].html = Render(FILES_CLEARED)
         /\ elems[j].html = Render(DEPT_SET)

\* C14 (as stated): in the step in which clearChat runs, it leaves chatHistory
\* empty, questionCount 0 and the counter on display 0.
C14_ResetOnClear ==
  [][\A c \in Calls :
       calls[c].pc = "idle" /\ calls'[c].kind = "clearChat" =>
         /\ chatHistory' = <<>>
         /\ questionCount' = 0
         /\ questionCountSpan' = 0]_vars

C16_OwnEntryReceivesText ==
  [][\A c \in Calls :
       Reading(c) /\ Resolved(c)' =>
         \A k \in 1..Len(chatHistory) :
           IF chatHistory[k].elem = calls[c].placeholder
           THEN chatHistory'[k].message = calls'[c].result
           ELSE chatHistory'[k] = chatHistory[k]]_vars

\* C17 (as stated): when generateQuestionsForDocument settles, on the success
\* and on the failure path, its own "Generating quick questions..." message
\* is no longer in the chat and every other message that was there still is.
C17_RemovesOwnMessage ==
  [][\A c \in Calls :
       calls[c].pc = "questions" /\ calls'[c].pc = "done" =>
         /\ ~InChat(calls[c].placeholder)'
         /\ \A k \in 1..Len(dom) :
              dom[k] # calls[c].placeholder => IndexFrom(dom', dom[k], 1) # 0]_vars

\* C18 (as stated): the ids of the messages present in the chat are pairwise
\* distinct, so looking a message up by the id addChatMessage returned for it
\* yields the element that call created.
C18_IdsDistinct ==
  /\ \A i, j \in 1..Len(dom) :
       i # j /\ dom[i] > 0 /\ dom[j] > 0 => elems[dom[i]].id # elems[dom[j]].id
  /\ \A u \in 1..Len(elems) :
       InChat(u) => GetElementById(dom, elems, elems[u].id) = u

\* C19: wherever control is back in the event loop no typing indicator is in
\* the chat (the one showTypingIndicator adds is removed by the streaming
\* addChatMessage of the same synchronous step), so removeTypingIndicator
\* never finds one: no call of askQuestion or generateSummary is rejected by
\* its throw.
C19_NoIndicatorBetweenSteps ==
  /\ ~InChat(TypingUid)
  /\ \A c \in Calls : calls[c].pc # "rejected"

\* removeTypingIndicator has run without finding an indicator on the success
\* path of one call and in the catch block of another
C19_Witness ==
  \E c, o \in Calls :
    /\ Reading(c)
    /\ calls[o].pc = "done" /\ calls[o].path = "catch" /\ calls[o].kind = "ask"

\* C20 (as stated): when the request of askQuestion fails before streaming
\* starts, streamResponse is not called, the content of the call's
\* placeholder (while it is in the chat) becomes the "AI failed to respond"
\* text, the placeholder's chat-history entry (while it is in chatHistory)
\* becomes an "AI Error: ..." text, and questionCount is left as it is.
C20_FetchFailurePath ==
  [][\A c \in Calls :
       calls[c].kind = "ask" /\ calls[c].pc = "fetch" /\ calls'[c].path = "catch" =>
         \E msg \in ErrorMessages :
           /\ calls'[c].pc = "done"
           /\ calls'[c].messageElement = Null /\ calls'[c].log = <<>>
           /\ InChat(calls[c].placeholder) =>
                elems'[calls[c].placeholder].html =
                  <<FailText("ask")>> \o MessageOr(msg, "Please try again or check server.")
           /\ \A k \in 1..Len(chatHistory) :
                chatHistory[k].elem = calls[c].placeholder =>
                  chatHistory'[k].message =
                    <<"AI Error:">> \o MessageOr(msg, FailFallback("ask"))
           /\ questionCount' = questionCount]_vars

\* C21: once no simulated resource load is pending, the list in the resource
\* panel is the list of the selected department
C21_ListOfSelected ==
  loads = <<>> => resourceCategories = ResourceList(selectedDepartment)

====
